---- MODULE Spec2Model ----
(***************************************************************************)
(* A model of the OpenRSVP command-line clients of this repository:        *)
(*   - openrsvp_cli: layered settings (config.py), the async APIClient     *)
(*     (client.py) and the command handlers built on it (events.py, ...);  *)
(*   - invite: the synchronous single-file client (invite/cli.py).         *)
(*                                                                         *)
(* Three specifications share the variables:                               *)
(*   SpecSettings  one call of load_settings on every combination of      *)
(*                 explicit / environment / file inputs;                   *)
(*   SpecClient    one APIClient object driven through __aenter__,         *)
(*                 _request and __aexit__ in every order;                  *)
(*   SpecCmd       one process run of either CLI, from the callback to     *)
(*                 the exit status;                                        *)
(*   SpecConfig    runs of either CLI, one after the other, that read and  *)
(*                 write its configuration file.                           *)
(***************************************************************************)
EXTENDS Integers, Sequences, FiniteSets, TLC

(***************************************************************************)
(* Bounds of the model.                                                    *)
(***************************************************************************)
\* most trailing slashes on a base URL drawn as an input of load_settings
MaxSlashes == 2
\* most httpx client objects one run constructs
MaxClients == 2
\* most calls of the request operation in one run
MaxAttempts == 2
\* most characters of a base URL given to a config write
MaxArgLen == 2

(***************************************************************************)
(* Python strings the code inspects character by character are sequences   *)
(* of characters; None is a value that is no such sequence.                *)
(***************************************************************************)
None == <<"None">>

RECURSIVE Slashes(_)
\* the string of n slashes
Slashes(n) == IF n = 0 THEN <<>> ELSE Append(Slashes(n - 1), "/")

\* URL stems: empty, a host, a host behind an interior slash
UrlStems == {<<>>, <<"h">>, <<"/", "h">>}
\* base URLs given by a source: a stem followed by 0..MaxSlashes slashes
UrlStrs == {stem \o Slashes(n) : stem \in UrlStems, n \in 0..MaxSlashes}
OptUrl == UrlStrs \cup {None}

\* the configuration layers, and the letter that marks a value of each
Sources == {"c", "e", "f"}

\* tokens and channel names a layer may give: absent, empty, or a non-empty
\* string marked with the layer it comes from, which tells the layers apart
OptToken(src) == {None, <<>>, <<"t", src>>}
OptChannel(src) == {None, <<>>, <<"n", src>>}

\* Python truthiness of an Optional[str]
Truthy(x) == x # None /\ x # <<>>

\* Python's  a or b
PyOr(a, b) == IF Truthy(a) THEN a ELSE b

RECURSIVE rstrip(_)
\* str.rstrip("/")
rstrip(s) ==
    IF s # <<>> /\ s[Len(s)] = "/" THEN rstrip(SubSeq(s, 1, Len(s) - 1)) ELSE s

\* config.py: the literal "http://localhost:8000"
DefaultBaseUrl ==
    <<"h", "t", "t", "p", ":", "/", "/", "l", "o", "c", "a", "l", "h", "o", "s", "t",
      ":", "8", "0", "0", "0">>


VARIABLES
    pc,        \* position of the process (or of the caller of the APIClient)
    inputs,    \* what load_settings was given: the cli, env and file layers
    settings,  \* the Settings record main() stores in ctx.obj
    lifecycle, \* the APIClient object: "Unopened", "Open" (acquired), "Closed" (released)
    client,    \* APIClient._client: 0 for None, else an index into httpx
    httpx,     \* the httpx client objects constructed so far, in order
    wire,      \* the HTTP requests handed to the network, in order
    attempts,  \* calls of the request operation so far
    outcome,   \* what the last request operation returned or raised
    cmd,       \* the command line being run
    printed,   \* the messages written to the terminal, in order
    exitCode,  \* the exit status of the process, read once pc is "exit"
    unhandled, \* the class of the exception that left the process, "" for none
    fault,     \* which kind of error the run met, "" for none
    disk       \* the configuration files, by path

settingsVars == <<inputs, settings, disk>>
clientVars == <<lifecycle, client, httpx, wire, attempts, outcome>>
cmdVars == <<cmd, printed, exitCode, unhandled, fault>>
vars ==
    <<pc, inputs, settings, lifecycle, client, httpx, wire, attempts, outcome,
      cmd, printed, exitCode, unhandled, fault, disk>>

\* a command line: the program, the command, and the arguments the handlers
\* look at (malformed: which of its arguments are malformed, "date" for a
\* start or end time that is not ISO-8601, "visibility" for a visibility
\* that is neither public nor private; channel: --channel; public_only:
\* --public-only; admin_token: --admin-token)
Command(cli, name, malformed, channel, public_only, admin_token) ==
    [cli |-> cli, name |-> name, malformed |-> malformed, channel |-> channel,
     public_only |-> public_only, admin_token |-> admin_token]

NoCommand == Command("", "", {}, None, FALSE, None)

(***************************************************************************)
(* openrsvp_cli/config.py                                                  *)
(***************************************************************************)
\* one configuration layer: the three optional string fields
Layer(base_url, token, default_channel) ==
    [base_url |-> base_url, token |-> token, default_channel |-> default_channel]

NoLayer == Layer(None, None, None)

Layers(src) ==
    {Layer(u, t, c) : u \in OptUrl, t \in OptToken(src), c \in OptChannel(src)}

\* dataclass Settings
Settings(base_url, token, default_channel, output_json, quiet) ==
    [base_url |-> base_url, token |-> token, default_channel |-> default_channel,
     output_json |-> output_json, quiet |-> quiet]

\* load_settings that forgets to normalise the URL
load_settings_NoStrip(cli, env, file, output_json, quiet) ==
    LET base_url == PyOr(PyOr(PyOr(cli.base_url, env.base_url), file.base_url),
                         DefaultBaseUrl)
        token == PyOr(PyOr(cli.token, env.token), file.token)
        default_channel ==
            PyOr(PyOr(cli.default_channel, env.default_channel), file.default_channel)
    IN  Settings(base_url, token, default_channel, output_json, quiet)

\* load_settings that lets the environment override the command line
load_settings_EnvFirst(cli, env, file, output_json, quiet) ==
    LET base_url == PyOr(PyOr(PyOr(env.base_url, cli.base_url), file.base_url),
                         DefaultBaseUrl)
        token == PyOr(PyOr(env.token, cli.token), file.token)
        default_channel ==
            PyOr(PyOr(env.default_channel, cli.default_channel), file.default_channel)
    IN  Settings(rstrip(base_url), token, default_channel, output_json, quiet)

\* load_settings: CLI > environment > config file, then the URL is normalised
load_settings(cli, env, file, output_json, quiet) ==
    LET base_url == PyOr(PyOr(PyOr(cli.base_url, env.base_url), file.base_url),
                         DefaultBaseUrl)
        token == PyOr(PyOr(cli.token, env.token), file.token)
        default_channel ==
            PyOr(PyOr(cli.default_channel, env.default_channel), file.default_channel)
    IN  Settings(rstrip(base_url), token, default_channel, output_json, quiet)

NoInputs == [cli |-> NoLayer, env |-> NoLayer, file |-> NoLayer]
NoSettings == Settings(None, None, None, FALSE, FALSE)



(***************************************************************************)
(* Python values: what response.json() yields and what the errors carry.   *)
(* A value is [t |-> its Python type, v |-> its content]; a dict is a      *)
(* sequence of <<key, value>> items, a list a sequence of values.          *)
(***************************************************************************)
VNone == [t |-> "NoneType", v |-> 0]
VBool(b) == [t |-> "bool", v |-> b]
VInt(n) == [t |-> "int", v |-> n]
VStr(s) == [t |-> "str", v |-> s]
VDict(items) == [t |-> "dict", v |-> items]
VList(items) == [t |-> "list", v |-> items]

\* isinstance(x, str)
IsStr(x) == x.t = "str"

\* bool(x): None, False, 0, "", {} and [] are falsy
PyBool(x) ==
    CASE x.t = "NoneType" -> FALSE
      [] x.t = "bool" -> x.v
      [] x.t = "int" -> x.v # 0
      [] x.t = "str" -> x.v # ""
      [] OTHER -> x.v # <<>>

RECURSIVE PyRepr(_)
RECURSIVE ReprItems(_, _)
\* the items of a dict (dict = TRUE) or of a list, separated by ", "
ReprItems(items, dict) ==
    IF items = <<>> THEN ""
    ELSE LET one == IF dict
                    THEN PyRepr(VStr(items[1][1])) \o ": " \o PyRepr(items[1][2])
                    ELSE PyRepr(items[1])
         IN  IF Len(items) = 1 THEN one
             ELSE one \o ", " \o ReprItems(Tail(items), dict)

\* repr(x) for the values above (strings here hold no quote to escape)
PyRepr(x) ==
    CASE x.t = "NoneType" -> "None"
      [] x.t = "bool" -> IF x.v THEN "True" ELSE "False"
      [] x.t = "int" -> ToString(x.v)
      [] x.t = "str" -> "'" \o x.v \o "'"
      [] x.t = "dict" -> "{" \o ReprItems(x.v, TRUE) \o "}"
      [] OTHER -> "[" \o ReprItems(x.v, FALSE) \o "]"

\* str(x): a string is itself, anything else its repr
PyStr(x) == IF IsStr(x) THEN x.v ELSE PyRepr(x)

(***************************************************************************)
(* The network: what one HTTP call can come back with.                     *)
(***************************************************************************)
\* response bodies the server may send
DetailNotFound == "{\"detail\": \"not found\"}"
DetailGone == "{\"detail\": \"gone\"}"
Bodies ==
    {"", "null", "false", "0", "{}", "[]", "[1]", "\"\"", "\"not found\"",
     DetailNotFound, DetailGone, "<html>"}

\* the bodies that are JSON documents
JsonBodies == Bodies \ {"", "<html>"}

\* json.loads of a JSON body
JsonValue(text) ==
    CASE text = "null" -> VNone
      [] text = "false" -> VBool(FALSE)
      [] text = "0" -> VInt(0)
      [] text = "{}" -> VDict(<<>>)
      [] text = "[]" -> VList(<<>>)
      [] text = "[1]" -> VList(<<VInt(1)>>)
      [] text = "\"\"" -> VStr("")
      [] text = "\"not found\"" -> VStr("not found")
      [] text = DetailNotFound -> VDict(<<<<"detail", VStr("not found")>>>>)
      [] text = DetailGone -> VDict(<<<<"detail", VStr("gone")>>>>)

\* response statuses the server may send
Statuses == {200, 201, 204, 302, 400, 401, 403, 404, 500}

\* httpx.Response.is_error and is_success
is_error(status) == 400 <= status /\ status <= 599
is_success(status) == 200 <= status /\ status <= 299

\* httpx.RequestError subclasses: DNS failure or refused connection, and the
\* two timeouts
RequestErrors == {"ConnectError", "ConnectTimeout", "ReadTimeout"}

NoNet == [kind |-> "none", status |-> 0, text |-> "", exc |-> ""]
Response(status, text) == [kind |-> "response", status |-> status, text |-> text, exc |-> ""]
Failure(exc) == [kind |-> "error", status |-> 0, text |-> "", exc |-> exc]

NetResults ==
    {Response(st, b) : st \in Statuses, b \in Bodies} \cup {Failure(e) : e \in RequestErrors}

(***************************************************************************)
(* openrsvp_cli/client.py                                                  *)
(***************************************************************************)
\* what a request operation did: kind is "return" or the class of the
\* exception raised; parsed tells whether the body went through the JSON
\* parser, sent whether an HTTP call was issued, net what the call met
Outcome(kind, status_code, message, payload, parsed, sent, net) ==
    [kind |-> kind, status_code |-> status_code, message |-> message,
     payload |-> payload, parsed |-> parsed, sent |-> sent, net |-> net,
     url |-> None]

NoOutcome == Outcome("none", 0, "", VNone, FALSE, FALSE, NoNet)

\* class NetworkError: the message names the base URL and the cause
NetworkError(base_url, net) ==
    [Outcome("NetworkError", 0, "Network error contacting {base_url}: " \o net.exc,
             VNone, FALSE, TRUE, net) EXCEPT !.url = base_url]

AuthMessage ==
    "Authentication failed. Provide a valid token via --token, OPENRSVP_TOKEN, or ~/.config/openrsvp/config.toml."

\* class AuthError(APIError): no payload
AuthError(status_code, net) ==
    Outcome("AuthError", status_code, AuthMessage, VNone, FALSE, TRUE, net)

\* class APIError
APIError(status_code, message, payload, net) ==
    Outcome("APIError", status_code, message, payload, TRUE, TRUE, net)

\* the call is on the wire and _request awaits self._client.request(...)
Pending == Outcome("pending", 0, "", VNone, FALSE, TRUE, NoNet)

\* raise RuntimeError(...): nothing reached the network
RuntimeError(message) == Outcome("RuntimeError", 0, message, VNone, FALSE, FALSE, NoNet)

\* _request, lines 73-76: response.json(), or response.text when the body is
\* no JSON document
ParsePayload(net) ==
    IF net.text \in JsonBodies THEN JsonValue(net.text) ELSE VStr(net.text)

\* Classify that parses the body before it looks at the status, with no
\* fallback for a body that is no JSON document
Classify_ParseFirst(net) ==
    IF net.text \notin JsonBodies
    THEN Outcome("ValueError", 0, "Expecting value", VNone, TRUE, TRUE, net)
    ELSE IF net.status \in {401, 403}
    THEN [AuthError(net.status, net) EXCEPT !.parsed = TRUE]
    ELSE LET payload == JsonValue(net.text)
         IN  IF is_error(net.status)
             THEN LET message ==
                          IF IsStr(payload) THEN payload
                          ELSE IF PyBool(payload) THEN payload ELSE VStr(net.text)
                  IN  APIError(net.status, PyStr(message), payload, net)
             ELSE Outcome("return", net.status, "", payload, TRUE, TRUE, net)

\* Classify that raises APIError without handing it the payload
Classify_DropPayload(net) ==
    IF net.status \in {401, 403} THEN AuthError(net.status, net)
    ELSE LET payload == ParsePayload(net)
         IN  IF is_error(net.status)
             THEN LET message ==
                          IF IsStr(payload) THEN payload
                          ELSE IF PyBool(payload) THEN payload ELSE VStr(net.text)
                  IN  APIError(net.status, PyStr(message), VNone, net)
             ELSE Outcome("return", net.status, "", payload, TRUE, TRUE, net)

\* Classify that takes the raw body text as the message of every APIError
Classify_TextMessage(net) ==
    IF net.status \in {401, 403} THEN AuthError(net.status, net)
    ELSE LET payload == ParsePayload(net)
         IN  IF is_error(net.status)
             THEN APIError(net.status, net.text, payload, net)
             ELSE Outcome("return", net.status, "", payload, TRUE, TRUE, net)

\* _request, lines 67-82: what a response obtained becomes
Classify(net) ==
    IF net.status \in {401, 403} THEN AuthError(net.status, net)
    ELSE LET payload == ParsePayload(net)
         IN  IF is_error(net.status)
             THEN LET message ==
                          IF IsStr(payload) THEN payload
                          ELSE IF PyBool(payload) THEN payload ELSE VStr(net.text)
                  IN  APIError(net.status, PyStr(message), payload, net)
             ELSE Outcome("return", net.status, "", payload, TRUE, TRUE, net)

\* httpx.AsyncClient(base_url=..., headers=..., timeout=...)
AsyncClient(id, base_url, headers) ==
    [id |-> id, closed |-> FALSE, base_url |-> base_url, headers |-> headers]

\* APIClient._request on an APIClient whose _client is self_client (0 for
\* None): an httpx client that was closed refuses to send (httpx raises
\* RuntimeError, which is no RequestError); net is NoNet while the call is
\* awaited
APIClient_request(self_client, clients, stg, net) ==
    IF self_client = 0
    THEN RuntimeError("APIClient must be used within an async context manager")
    ELSE IF clients[self_client].closed
    THEN RuntimeError("Cannot send a request, as the client has been closed.")
    ELSE IF net.kind = "none" THEN Pending
    ELSE IF net.kind = "error" THEN NetworkError(stg.base_url, net)
    ELSE Classify(net)

(***************************************************************************)
(* The configuration files on disk.                                        *)
(***************************************************************************)
\* config.py CONFIG_PATH and invite/cli.py CONFIG_PATH
OpenRsvpConfigPath == "~/.openrsvp/config.toml"
InviteConfigPath == "~/.config/invite/config.toml"
Paths == {OpenRsvpConfigPath, InviteConfigPath}

\* a file: kind is "missing", "unreadable" (open raises), "garbage" (no
\* TOML), "toml" (a TOML document, given by the value doc it parses to) or
\* "text" (a file given by its characters); written is the base URL the
\* config write that made the file was given, None for any other file
File(kind, doc, text, written) ==
    [kind |-> kind, doc |-> doc, text |-> text, written |-> written]

Missing == File("missing", VNone, <<>>, None)

\* no configuration file anywhere
NoDisk == [p \in Paths |-> Missing]

(***************************************************************************)
(* SpecSettings: main.py's callback calls load_settings once.              *)
(***************************************************************************)
InitSettings ==
    /\ pc = "start"
    /\ inputs = NoInputs
    /\ settings = NoSettings
    /\ lifecycle = "Unopened"
    /\ client = 0
    /\ httpx = <<>>
    /\ wire = <<>>
    /\ attempts = 0
    /\ outcome = NoOutcome
    /\ cmd = NoCommand
    /\ printed = <<>>
    /\ exitCode = 0
    /\ unhandled = ""
    /\ fault = ""
    /\ disk = NoDisk

\* main.py main(): the options, the environment and the file are whatever
\* the user left there
MainCallback ==
    /\ pc = "start"
    /\ \E cli \in Layers("c"), env \in Layers("e"), file \in Layers("f") :
          /\ inputs' = [cli |-> cli, env |-> env, file |-> file]
          /\ settings' = load_settings(cli, env, file, FALSE, FALSE)
    /\ pc' = "loaded"
    /\ UNCHANGED <<disk, clientVars, cmdVars>>

NextSettings == MainCallback

SpecSettings == InitSettings /\ [][NextSettings]_vars

(***************************************************************************)
(* SpecClient: one APIClient(settings) object, its methods called in any   *)
(* order by a caller that is not bound to the `async with` discipline.     *)
(* The caller waits for each request to return before its next call.       *)
(***************************************************************************)
\* f"Bearer {token}"
Bearer(token) == <<"B", "e", "a", "r", "e", "r", " ">> \o token

\* __aenter__ that formats the header whatever the token is
AuthHeader_Always(stg) == Bearer(stg.token)

\* __aenter__, lines 41-43: the Authorization header, None for no header
AuthHeader(stg) == IF Truthy(stg.token) THEN Bearer(stg.token) ELSE None

\* settings a caller may construct the client with, as load_settings makes
\* them: the token absent, empty (from the file) or given on the command line
ClientSettings ==
    {load_settings(Layer(<<"h", "/">>, t, None), NoLayer, Layer(None, f, None),
                   FALSE, FALSE) :
        t \in {None, <<"t", "c">>}, f \in {None, <<>>}}

\* __aexit__ that also forgets the client it closed
aexit_Forget ==
    /\ lifecycle' = "Closed"
    /\ httpx' = IF client # 0 THEN [httpx EXCEPT ![client].closed = TRUE] ELSE httpx
    /\ client' = 0

\* __aexit__ that does not close the httpx client
aexit_NoClose ==
    /\ lifecycle' = "Closed"
    /\ UNCHANGED <<client, httpx>>

\* APIClient.__aenter__: always builds a new httpx client and keeps it
__aenter__ ==
    /\ lifecycle' = "Open"
    /\ httpx' = Append(httpx, AsyncClient(Len(httpx) + 1, settings.base_url,
                                          AuthHeader(settings)))
    /\ client' = Len(httpx) + 1

\* APIClient.__aexit__: closes the httpx client, if there is one, and keeps
\* the reference to it
__aexit__ ==
    /\ lifecycle' = "Closed"
    /\ httpx' = IF client # 0 THEN [httpx EXCEPT ![client].closed = TRUE] ELSE httpx
    /\ client' = client

\* the request an httpx client puts on the network
WireRequest(method, path, c) ==
    [method |-> method, path |-> path, base_url |-> c.base_url,
     authorization |-> c.headers, via |-> c.id]

\* get, post, delete, patch: each is _request with its method
Methods == {"GET", "POST", "DELETE", "PATCH"}

\* get/post/delete/patch up to the await: the call is refused, or it goes on
\* the wire and _request waits for the network
CallRequest(method, path) ==
    /\ attempts' = attempts + 1
    /\ LET o == APIClient_request(client, httpx, settings, NoNet)
       IN  /\ outcome' = o
           /\ wire' = IF o.sent
                      THEN Append(wire, WireRequest(method, path, httpx[client]))
                      ELSE wire

\* the rest of _request once the network has answered or failed
ReturnRequest ==
    \E net \in NetResults : outcome' = APIClient_request(client, httpx, settings, net)

InitClient ==
    /\ pc = "idle"
    /\ inputs = NoInputs
    /\ settings \in ClientSettings
    /\ lifecycle = "Unopened"
    /\ client = 0
    /\ httpx = <<>>
    /\ wire = <<>>
    /\ attempts = 0
    /\ outcome = NoOutcome
    /\ cmd = NoCommand
    /\ printed = <<>>
    /\ exitCode = 0
    /\ unhandled = ""
    /\ fault = ""
    /\ disk = NoDisk

\* the caller acquires the client: async with client
Acquire ==
    /\ pc = "idle"
    /\ lifecycle # "Open"
    /\ Len(httpx) < MaxClients
    /\ __aenter__
    /\ UNCHANGED <<pc, settingsVars, wire, attempts, outcome, cmdVars>>

\* the caller leaves the async with block
Release ==
    /\ pc = "idle"
    /\ lifecycle = "Open"
    /\ __aexit__
    /\ UNCHANGED <<pc, settingsVars, wire, attempts, outcome, cmdVars>>

\* the caller calls get, post, delete or patch, in whatever state the client is
Call(method) ==
    /\ pc = "idle"
    /\ attempts < MaxAttempts
    /\ CallRequest(method, <<"/api/v1/events">>)
    /\ pc' = IF outcome'.sent THEN "awaiting" ELSE pc
    /\ UNCHANGED <<settingsVars, lifecycle, client, httpx, cmdVars>>

\* the awaited call comes back
Return ==
    /\ pc = "awaiting"
    /\ ReturnRequest
    /\ pc' = "idle"
    /\ UNCHANGED <<settingsVars, lifecycle, client, httpx, wire, attempts, cmdVars>>

NextClient ==
    \/ Acquire
    \/ Release
    \/ \E method \in Methods : Call(method)
    \/ Return

SpecClient == InitClient /\ [][NextClient]_vars

(***************************************************************************)
(* openrsvp_cli: the command handlers (events.py, rsvps.py, channels.py,   *)
(* config_cli.py).  Every API handler has the shape                        *)
(*     try:                                                                *)
(*         async with APIClient(settings) as client:                       *)
(*             data = await client.<method>(<path>)                        *)
(*     except Exception as exc:                                            *)
(*         _handle_error(exc, settings); return                            *)
(*     <render data>                                                       *)
(***************************************************************************)
ApiCommands ==
    {"events list", "events create", "events show", "events delete",
     "rsvps create", "rsvps list", "rsvps approve", "rsvps reject", "rsvps delete",
     "channels list", "channels create", "channels show"}

OpenRsvpCommands == ApiCommands \cup {"config set-base-url"}

\* the commands that validate an argument: events create (the _validate_datetime
\* callbacks of --start and --end), channels create (--visibility)
ValidatingCommands == {"events create", "channels create"}

\* the arguments of a command that can be malformed: events create takes
\* --start and --end, channels create --visibility, and the invite program's
\* create-event --start-time, --end-time and --channel-visibility
ArgumentsOf(name) ==
    CASE name = "events create" -> {"date"}
      [] name = "channels create" -> {"visibility"}
      [] name = "create-event" -> {"date", "visibility"}
      [] OTHER -> {}

\* the client method each handler calls
MethodOf(name) ==
    CASE name \in {"events list", "events show", "rsvps list", "channels list",
                   "channels show"} -> "GET"
      [] name \in {"events delete", "rsvps delete"} -> "DELETE"
      [] OTHER -> "POST"

\* list_events that looks at the token before the channel
ListEventsPath_TokenFirst(c, stg) ==
    LET target_channel == PyOr(c.channel, stg.default_channel)
    IN  IF Truthy(stg.token) THEN <<"/admin/", stg.token, "/events">>
        ELSE IF Truthy(target_channel) THEN <<"/api/v1/channels/", target_channel>>
        ELSE <<"/api/v1/events">>

\* list_events, lines 123-132: the path events list asks for
ListEventsPath(c, stg) ==
    LET target_channel == PyOr(c.channel, stg.default_channel)
    IN  IF Truthy(target_channel) THEN <<"/api/v1/channels/", target_channel>>
        ELSE IF Truthy(stg.token) THEN <<"/admin/", stg.token, "/events">>
        ELSE <<"/api/v1/events">>

\* the path each handler asks for
PathOf(c, stg) ==
    CASE c.name = "events list" -> ListEventsPath(c, stg)
      [] c.name = "events create" -> <<"/api/v1/events">>
      [] c.name \in {"events show", "events delete"} -> <<"/api/v1/events/{event_id}">>
      [] c.name = "rsvps create" -> <<"/api/v1/rsvps">>
      [] c.name = "rsvps list" -> <<"/api/v1/events/{event_id}/rsvps">>
      [] c.name = "rsvps approve" -> <<"/api/v1/rsvps/{rsvp_id}/approve">>
      [] c.name = "rsvps reject" -> <<"/api/v1/rsvps/{rsvp_id}/reject">>
      [] c.name = "rsvps delete" -> <<"/api/v1/rsvps/{rsvp_id}">>
      [] c.name \in {"channels list", "channels create"} -> <<"/api/v1/channels">>
      [] OTHER -> <<"/api/v1/channels/{channel_name}">>

IsDict(x) == x.t = "dict"
IsList(x) == x.t = "list"

\* some element of a list is no dict, so element.get(...) raises
HasNonDict(items) == \E i \in DOMAIN items : ~IsDict(items[i])

\* dict.get(key), None when the key is missing
DictGet(d, key) ==
    IF \E i \in DOMAIN d.v : d.v[i][1] = key
    THEN d.v[CHOOSE i \in DOMAIN d.v : d.v[i][1] = key][2]
    ELSE VNone

\* _extract_events_payload
_extract_events_payload(data) ==
    IF IsList(data) THEN data.v
    ELSE IF IsDict(data)
    THEN LET keys == <<"events", "items", "results", "data">>
             hits == {k \in DOMAIN keys : IsList(DictGet(data, keys[k]))}
         IN  IF hits = {} THEN <<>>
             ELSE DictGet(data, keys[CHOOSE k \in hits : \A j \in hits : k <= j]).v
    ELSE <<>>

\* what follows the try block of a handler raises AttributeError: the
\* renderers call .get on the payload, or on its elements, without looking
\* at its type
RenderRaises(c, stg, data) ==
    IF c.name = "events list"
    THEN ~stg.output_json /\ HasNonDict(_extract_events_payload(data))
    ELSE IF c.name = "events show"
    THEN LET event == IF IsDict(data) /\ (\E i \in DOMAIN data.v : data.v[i][1] = "event")
                      THEN DictGet(data, "event") ELSE data
         IN  ~stg.output_json /\ PyBool(event) /\ ~IsDict(event)
    ELSE IF c.name \in {"events create", "rsvps create", "channels create", "channels show"}
    THEN ~stg.output_json /\ ~IsDict(data)
    ELSE IF c.name \in {"rsvps list", "channels list"}
    THEN ~stg.output_json /\ (IF IsList(data) THEN HasNonDict(data.v) ELSE ~IsDict(data))
    ELSE FALSE

\* what a handler prints after a successful request
RenderLines(c, stg) ==
    IF stg.output_json THEN <<"json">>
    ELSE IF c.name \in {"events delete", "rsvps approve", "rsvps reject", "rsvps delete"}
    THEN IF stg.quiet THEN <<>> ELSE <<"done">>
    ELSE IF c.name \in {"events create", "rsvps create", "channels create"} /\ ~stg.quiet
    THEN <<"table", "done">>
    ELSE <<"table">>

\* _handle_error: the lines printed for the exception o; typer.Exit(1) follows
_handle_error(o, stg) ==
    IF o.kind = "AuthError" THEN <<o.message>>
    ELSE IF o.kind = "NetworkError" THEN <<o.message>>
    ELSE IF o.kind = "APIError"
    THEN <<"API error (" \o ToString(o.status_code) \o "): " \o o.message>>
         \o (IF stg.output_json /\ PyBool(o.payload) THEN <<"json">> ELSE <<>>)
    ELSE <<"Unexpected error: " \o o.message>>

\* the kind of error a request outcome stands for
FaultOf(o) ==
    CASE o.net.kind = "error" -> "network"
      [] o.net.kind = "response" /\ o.net.status \in {401, 403} -> "auth"
      [] o.net.kind = "response" /\ is_error(o.net.status) -> "api"
      [] o.kind \notin {"return", "pending", "none"} -> "other"
      [] OTHER -> ""

\* settings main() may have stored for a handler, as load_settings makes them
OpenRsvpSettings ==
    {load_settings(Layer(<<"h", "/">>, t, None), Layer(None, None, n),
                   Layer(None, f, None), j, q) :
        t \in {None, <<"t", "c">>}, n \in {None, <<"n", "e">>}, f \in {None, <<>>},
        j \in BOOLEAN, q \in BOOLEAN}

\* the command lines of the openrsvp program
OpenRsvpLines ==
    {Command("openrsvp", name, m, ch, po, None) :
        name \in OpenRsvpCommands, m \in SUBSET {"date", "visibility"},
        ch \in OptChannel("c"), po \in BOOLEAN}

\* invite/cli.py: DEFAULT_BASE_URL
InviteDefaultBaseUrl ==
    <<"h", "t", "t", "p", "s", ":", "/", "/", "o", "p", "e", "n", "r", "s", "v", "p",
      ".", "k", "a", "o", "t", "i", "c", ".", "c", "c">>

\* invite/cli.py _normalize_base_url
_normalize_base_url(base_url) == rstrip(base_url)

\* invite/cli.py main(): ctx.obj holds base_url and admin_token; the record
\* of the other program is reused, admin_token in its token field
invite_main(base_url, config_base_url, admin_token) ==
    Settings(_normalize_base_url(PyOr(PyOr(base_url, config_base_url),
                                      InviteDefaultBaseUrl)),
             admin_token, None, FALSE, FALSE)

InviteSettings ==
    {invite_main(u, None, a) :
        u \in {None, <<"h", "/">>}, a \in {None, <<>>, <<"t", "e">>}}

InviteCommands == {"configure", "create-event", "show-event", "rsvps", "public-events"}

\* the command lines of the invite program
InviteLines ==
    {Command("invite", name, m, None, FALSE, a) :
        name \in InviteCommands, m \in SUBSET {"date", "visibility"},
        a \in OptToken("c")}

CommandLines(cli) == IF cli = "openrsvp" THEN OpenRsvpLines ELSE InviteLines

\* the arguments a command does not have keep their defaults
WellFormed(c) ==
    /\ c.malformed \subseteq ArgumentsOf(c.name)
    /\ c.name # "events list" => (c.channel = None /\ ~c.public_only)
    /\ c.name # "rsvps" => c.admin_token = None

\* typer.BadParameter leaves through click: a usage error, exit status 2
BadParameter ==
    /\ printed' = Append(printed, "Usage error")
    /\ exitCode' = 2
    /\ fault' = "validation"
    /\ pc' = "exit"
    /\ UNCHANGED unhandled

\* click parses the command line, runs the option callbacks and calls the
\* handler; events create stops at a date that _validate_datetime refuses
Invoke(c) ==
    /\ pc = "loaded"
    /\ c \in CommandLines(cmd.cli) /\ WellFormed(c)
    /\ cmd' = c
    /\ IF c.name = "events create" /\ "date" \in c.malformed
       THEN BadParameter
       ELSE pc' = "handler" /\ UNCHANGED <<printed, exitCode, unhandled, fault>>
    /\ UNCHANGED <<settingsVars, clientVars>>

\* the handler up to async with APIClient(settings) as client; channels
\* create first refuses a visibility that is neither public nor private
OpenSession ==
    /\ pc = "handler"
    /\ cmd.name \in ApiCommands
    /\ IF cmd.name = "channels create" /\ "visibility" \in cmd.malformed
       THEN BadParameter /\ UNCHANGED <<lifecycle, client, httpx, cmd>>
       ELSE __aenter__ /\ pc' = "session" /\ UNCHANGED cmdVars
    /\ UNCHANGED <<settingsVars, wire, attempts, outcome>>

\* data = await client.<method>(<path>), up to the await
SessionCall ==
    /\ pc = "session"
    /\ CallRequest(MethodOf(cmd.name), PathOf(cmd, settings))
    /\ pc' = IF outcome'.sent THEN "awaiting" ELSE "leaving"
    /\ UNCHANGED <<settingsVars, lifecycle, client, httpx, cmdVars>>

\* a handler that asks again when the request failed
SessionReturn_Retry ==
    /\ pc = "awaiting"
    /\ ReturnRequest
    /\ pc' = IF outcome'.kind = "return" THEN "leaving" ELSE "session"
    /\ UNCHANGED <<settingsVars, lifecycle, client, httpx, wire, attempts, cmdVars>>

\* the awaited request returns or raises
SessionReturn ==
    /\ pc = "awaiting"
    /\ ReturnRequest
    /\ pc' = "leaving"
    /\ UNCHANGED <<settingsVars, lifecycle, client, httpx, wire, attempts, cmdVars>>

\* a handler that closes the client after the request, outside any finally:
\* an exception skips the close
CloseSession_SkipOnError ==
    /\ pc = "leaving"
    /\ IF outcome.kind = "return" THEN __aexit__ ELSE UNCHANGED <<lifecycle, client, httpx>>
    /\ pc' = "closed"
    /\ UNCHANGED <<settingsVars, wire, attempts, outcome, cmdVars>>

\* the async with block is left, by return or by exception
CloseSession ==
    /\ pc = "leaving"
    /\ __aexit__
    /\ pc' = "closed"
    /\ UNCHANGED <<settingsVars, wire, attempts, outcome, cmdVars>>

\* except Exception: _handle_error and exit status 1; else the rendering,
\* which is outside the try block
Finish ==
    /\ pc = "closed"
    /\ pc' = "exit"
    /\ IF outcome.kind # "return"
       THEN /\ printed' = printed \o _handle_error(outcome, settings)
            /\ exitCode' = 1
            /\ fault' = FaultOf(outcome)
            /\ UNCHANGED unhandled
       ELSE IF RenderRaises(cmd, settings, outcome.payload)
       THEN /\ unhandled' = "AttributeError"
            /\ exitCode' = 1
            /\ fault' = "render"
            /\ UNCHANGED printed
       ELSE /\ printed' = printed \o RenderLines(cmd, settings)
            /\ UNCHANGED <<exitCode, unhandled, fault>>
    /\ UNCHANGED <<settingsVars, clientVars, cmd>>

(***************************************************************************)
(* The configuration files: what tomllib makes of them, and the readers    *)
(* of the two programs.  A TOML string is [t |-> "str", v |-> its          *)
(* characters]; the other TOML values are the Python values above.         *)
(***************************************************************************)
TStr(chars) == [t |-> "str", v |-> chars]

\* bool(x) of a TOML value
TomlBool(x) ==
    CASE x.t = "NoneType" -> FALSE
      [] x.t = "bool" -> x.v
      [] x.t = "int" -> x.v # 0
      [] OTHER -> x.v # <<>>

\* str(x) of a TOML value, as characters (integers here have one digit,
\* tables and arrays are empty)
TomlStr(x) ==
    CASE x.t = "str" -> x.v
      [] x.t = "int" -> <<ToString(x.v)>>
      [] x.t = "bool" -> IF x.v THEN <<"T", "r", "u", "e">> ELSE <<"F", "a", "l", "s", "e">>
      [] x.t = "dict" -> <<"{", "}">>
      [] OTHER -> <<"[", "]">>

\* the characters  base_url = "  that open the line configure writes
KeyPrefix == <<"b", "a", "s", "e", "_", "u", "r", "l", " ", "=", " ", "\"">>

\* what tomllib does not parse
TOMLDecodeError == [ok |-> FALSE, value |-> <<>>, rest |-> <<>>]

RECURSIVE BasicString(_)
\* a TOML basic string read from the character after its opening quote:
\* the string ends at the first quote that no backslash escapes, a
\* backslash must open one of the escapes TOML knows, and the line may not
\* end inside the string
BasicString(s) ==
    IF s = <<>> \/ s[1] = "\n" THEN TOMLDecodeError
    ELSE IF s[1] = "\"" THEN [ok |-> TRUE, value |-> <<>>, rest |-> Tail(s)]
    ELSE IF s[1] = "\\"
    THEN IF Len(s) < 2 \/ s[2] \notin {"\\", "\"", "n", "t", "r", "f"}
         THEN TOMLDecodeError
         ELSE LET r == BasicString(SubSeq(s, 3, Len(s)))
                  c == CASE s[2] = "n" -> "\n" [] s[2] = "t" -> "\t"
                         [] s[2] = "r" -> "\r" [] s[2] = "f" -> "\f"
                         [] OTHER -> s[2]
              IN  IF r.ok THEN [r EXCEPT !.value = <<c>> \o r.value] ELSE r
    ELSE LET r == BasicString(Tail(s))
         IN  IF r.ok THEN [r EXCEPT !.value = <<s[1]>> \o r.value] ELSE r

\* tomllib.loads of the texts the programs write: nothing at all, or one
\* line  base_url = "<basic string>"
tomllib_loads(text) ==
    IF text = <<>> THEN [ok |-> TRUE, doc |-> VDict(<<>>)]
    ELSE IF Len(text) > Len(KeyPrefix) /\ SubSeq(text, 1, Len(KeyPrefix)) = KeyPrefix
    THEN LET r == BasicString(SubSeq(text, Len(KeyPrefix) + 1, Len(text)))
         IN  IF r.ok /\ r.rest \in {<<>>, <<"\n">>}
             THEN [ok |-> TRUE, doc |-> VDict(<<<<"base_url", TStr(r.value)>>>>)]
             ELSE [ok |-> FALSE, doc |-> VNone]
    ELSE [ok |-> FALSE, doc |-> VNone]

\* with path.open("rb") as fh: tomllib.load(fh), ok = FALSE when it raises
tomllib_load(file) ==
    CASE file.kind = "toml" -> [ok |-> TRUE, doc |-> file.doc]
      [] file.kind = "text" -> tomllib_loads(file.text)
      [] OTHER -> [ok |-> FALSE, doc |-> VNone]

\* str(value) if value is not None else None
StrOrNone(x) == IF x.t = "NoneType" THEN None ELSE TomlStr(x)

\* _read_config_file that reads the top level only
_read_config_file_Flat(file) ==
    IF file.kind = "missing" THEN [raises |-> "", layer |-> NoLayer]
    ELSE LET loaded == tomllib_load(file)
         IN  IF ~loaded.ok THEN [raises |-> "", layer |-> NoLayer]
             ELSE [raises |-> "",
                   layer |-> Layer(StrOrNone(DictGet(loaded.doc, "base_url")),
                                   StrOrNone(DictGet(loaded.doc, "token")),
                                   StrOrNone(DictGet(loaded.doc, "default_channel")))]

\* config.py _read_config_file: the layer the file gives, or the exception
\* that leaves the function; raw.get("openrsvp", raw) is taken as a dict
\* whatever it is
_read_config_file(file) ==
    IF file.kind = "missing" THEN [raises |-> "", layer |-> NoLayer]
    ELSE LET loaded == tomllib_load(file)
         IN  IF ~loaded.ok THEN [raises |-> "", layer |-> NoLayer]
             ELSE LET raw == loaded.doc
                      present == \E i \in DOMAIN raw.v : raw.v[i][1] = "openrsvp"
                      config_section == IF present THEN DictGet(raw, "openrsvp") ELSE raw
                  IN  IF ~IsDict(config_section)
                      THEN [raises |-> "AttributeError", layer |-> NoLayer]
                      ELSE [raises |-> "",
                            layer |-> Layer(StrOrNone(DictGet(config_section, "base_url")),
                                            StrOrNone(DictGet(config_section, "token")),
                                            StrOrNone(DictGet(config_section,
                                                              "default_channel")))]

\* invite/cli.py _load_config_base_url: everything after the exists() test
\* is inside try / except Exception
_load_config_base_url(file) ==
    IF file.kind = "missing" THEN None
    ELSE LET loaded == tomllib_load(file)
         IN  IF ~loaded.ok \/ ~IsDict(loaded.doc) THEN None
             ELSE LET base_url == DictGet(loaded.doc, "base_url")
                  IN  IF TomlBool(base_url) THEN TomlStr(base_url) ELSE None

\* the characters of the base URLs given to a config write
ArgChars == {"h", "/", "\\"}

\* the base URLs given to a config write: up to MaxArgLen characters
WriteArgs == UNION {[1..n -> ArgChars] : n \in 0..MaxArgLen}

\* config.py save_base_url(base_url) on the files: the file at CONFIG_PATH
\* becomes a document with the one entry base_url, normalised, and the path
\* is returned, or the write fails with ConfigWriteError and changes nothing
save_base_url(base_url, ok, files) ==
    IF ok
    THEN [raises |-> "", path |-> OpenRsvpConfigPath,
          files |-> [files EXCEPT ![OpenRsvpConfigPath] =
                        File("toml", VDict(<<<<"base_url", TStr(rstrip(base_url))>>>>),
                             <<>>, base_url)]]
    ELSE [raises |-> "ConfigWriteError", path |-> "", files |-> files]

\* config set-base-url: save_base_url inside try / except Exception
set_base_url ==
    /\ pc = "handler"
    /\ cmd.name = "config set-base-url"
    /\ pc' = "exit"
    /\ \E base_url_arg \in WriteArgs \cup {None}, ok \in BOOLEAN :
          LET base_url == PyOr(base_url_arg, DefaultBaseUrl)
              r == save_base_url(base_url, ok, disk)
          IN  /\ disk' = r.files
              /\ IF r.raises # ""
                 THEN /\ printed' = Append(printed, "Failed to update config: " \o r.raises)
                      /\ exitCode' = 1
                      /\ fault' = "config-write"
                 ELSE /\ printed' = Append(printed, "Saved base_url to " \o r.path)
                      /\ UNCHANGED <<exitCode, fault>>
    /\ UNCHANGED <<inputs, settings, clientVars, cmd, unhandled>>

(***************************************************************************)
(* invite/cli.py: synchronous handlers around the module's _request.       *)
(***************************************************************************)
\* the path each invite command asks for
InvitePathOf(name) ==
    CASE name = "create-event" -> <<"/api/v1/events">>
      [] name = "show-event" -> <<"/api/v1/events/{event_id}">>
      [] name = "rsvps" -> <<"/api/v1/events/{event_id}/rsvps">>
      [] OTHER -> <<"/api/v1/channels/{channel_slug}?page={page}">>

\* create-event posts, the other commands get
InviteMethodOf(name) == IF name = "create-event" THEN "POST" ELSE "GET"

\* the line _resolve_admin_token prints when it finds no token
TokenRequired == "An admin token is required."

\* _resolve_admin_token that prefers the global token
_resolve_admin_token_GlobalFirst(stg, admin_token) == PyOr(stg.token, admin_token)

\* _resolve_admin_token: the token of the command, else the global one
_resolve_admin_token(stg, admin_token) == PyOr(admin_token, stg.token)

\* _request without the early return for status 204
invite_request_No204(net, echo) ==
    IF net.kind = "error"
    THEN [outcome |-> Outcome(net.exc, 0, "", VNone, FALSE, TRUE, net), lines |-> <<>>]
    ELSE LET data == IF net.text \in JsonBodies THEN JsonValue(net.text)
                     ELSE VDict(<<<<"detail", VStr(net.text)>>>>)
             failed == "Request failed (" \o ToString(net.status) \o ")"
         IN  IF is_success(net.status)
             THEN [outcome |-> Outcome("return", net.status, "", data, TRUE, TRUE, net),
                   lines |-> IF echo THEN <<"json">> ELSE <<>>]
             ELSE [outcome |-> Outcome("Exit", net.status, failed, data, TRUE, TRUE, net),
                   lines |-> <<failed, "json">>]

\* invite/cli.py _request after the with block: the outcome and the lines
\* it prints; a transport failure is not caught and leaves as the httpx
\* exception it is
invite_request(net, echo) ==
    IF net.kind = "error"
    THEN [outcome |-> Outcome(net.exc, 0, "", VNone, FALSE, TRUE, net), lines |-> <<>>]
    ELSE IF net.status = 204
    THEN [outcome |-> Outcome("return", 204, "", VNone, FALSE, TRUE, net),
          lines |-> <<"Success (204 No Content)">>]
    ELSE LET data == IF net.text \in JsonBodies THEN JsonValue(net.text)
                     ELSE VDict(<<<<"detail", VStr(net.text)>>>>)
             failed == "Request failed (" \o ToString(net.status) \o ")"
         IN  IF is_success(net.status)
             THEN [outcome |-> Outcome("return", net.status, "", data, TRUE, TRUE, net),
                   lines |-> IF echo THEN <<"json">> ELSE <<>>]
             ELSE [outcome |-> Outcome("Exit", net.status, failed, data, TRUE, TRUE, net),
                   lines |-> <<failed, "json">>]

\* _collect_events_from_payload
_collect_events_from_payload(data) ==
    IF ~IsDict(data) THEN <<>>
    ELSE IF IsList(DictGet(data, "events"))
    THEN SelectSeq(DictGet(data, "events").v, IsDict)
    ELSE LET channel == DictGet(data, "channel")
         IN  IF IsDict(channel) /\ IsList(DictGet(channel, "events"))
             THEN SelectSeq(DictGet(channel, "events").v, IsDict)
             ELSE <<>>

\* create_event after _request returned data: data.get raises on a value
\* that is truthy and no dict
CreateEventRaises(data) == PyBool(data) /\ ~IsDict(data)

\* what an invite handler prints after _request returned data
InviteLinesAfter(name, data) ==
    IF name = "create-event"
    THEN IF ~PyBool(data) THEN <<>>
         ELSE (IF PyBool(DictGet(data, "event")) THEN <<"Event created:", "json">>
               ELSE <<>>)
              \o (IF PyBool(DictGet(data, "admin_token"))
                  THEN <<"", "Admin token (save this):", "{admin_token}">> ELSE <<>>)
    ELSE IF name = "public-events"
    THEN IF _collect_events_from_payload(IF PyBool(data) THEN data ELSE VDict(<<>>)) = <<>>
         THEN <<"No public events found.">>
         ELSE <<"Public events">>
    ELSE <<>>

\* create-event, show-event, rsvps and public-events: one synchronous run of
\* the handler, the HTTP exchange included; create-event checks the
\* visibility and sends its start and end times as they were given
InviteRun ==
    /\ pc = "handler"
    /\ cmd.cli = "invite"
    /\ cmd.name # "configure"
    /\ pc' = "exit"
    /\ IF cmd.name = "create-event" /\ "visibility" \in cmd.malformed
       THEN BadParameter /\ UNCHANGED clientVars
       ELSE IF cmd.name = "rsvps" /\ ~Truthy(_resolve_admin_token(settings, cmd.admin_token))
       THEN /\ printed' = Append(printed, TokenRequired)
            /\ exitCode' = 1
            /\ fault' = "token"
            /\ UNCHANGED <<unhandled, clientVars>>
       ELSE \E net \in NetResults :
              LET r == invite_request(net, cmd.name # "create-event")
                  o == r.outcome
                  c == [AsyncClient(Len(httpx) + 1, settings.base_url, None)
                            EXCEPT !.closed = TRUE]
                  headers == IF cmd.name = "rsvps"
                             THEN Bearer(_resolve_admin_token(settings, cmd.admin_token))
                             ELSE None
                  raises == o.kind = "return" /\ cmd.name = "create-event"
                            /\ CreateEventRaises(o.payload)
              IN  /\ httpx' = Append(httpx, c)
                  /\ wire' = Append(wire,
                        [WireRequest(InviteMethodOf(cmd.name), InvitePathOf(cmd.name), c)
                            EXCEPT !.authorization = headers])
                  /\ attempts' = attempts + 1
                  /\ outcome' = o
                  /\ UNCHANGED <<lifecycle, client>>
                  /\ fault' = IF raises THEN "render" ELSE FaultOf(o)
                  /\ unhandled' = IF o.kind \in RequestErrors THEN o.kind
                                  ELSE IF raises THEN "AttributeError" ELSE ""
                  /\ exitCode' = IF o.kind = "return" /\ ~raises THEN 0 ELSE 1
                  /\ printed' = printed \o r.lines
                        \o (IF o.kind = "return" /\ ~raises
                            THEN InviteLinesAfter(cmd.name, o.payload) ELSE <<>>)
    /\ UNCHANGED <<settingsVars, cmd>>

\* configure: the line is formatted with no escaping and the file is
\* written with no try block around it, so a write that fails leaves as the
\* OSError it is; mkdir or open failing leaves the file as it was, write
\* failing after open leaves it empty
configure ==
    /\ pc = "handler"
    /\ cmd.name = "configure"
    /\ pc' = "exit"
    /\ \E base_url \in WriteArgs, ok \in BOOLEAN :
          LET normalized == _normalize_base_url(base_url)
              text == KeyPrefix \o normalized \o <<"\"", "\n">>
          IN  IF ok
              THEN /\ disk' = [disk EXCEPT ![InviteConfigPath] =
                                  File("text", VNone, text, base_url)]
                   /\ printed' = Append(printed, "Saved config to " \o InviteConfigPath)
                   /\ UNCHANGED <<exitCode, unhandled, fault>>
              ELSE /\ disk' \in {disk, [disk EXCEPT ![InviteConfigPath] =
                                          File("text", VNone, <<>>, None)]}
                   /\ unhandled' = "OSError"
                   /\ exitCode' = 1
                   /\ fault' = "config-write"
                   /\ UNCHANGED printed
    /\ UNCHANGED <<inputs, settings, clientVars, cmd>>

(***************************************************************************)
(* SpecCmd: one run of either program, from the stored settings to the     *)
(* exit status.                                                            *)
(***************************************************************************)
Programs == {"openrsvp", "invite"}

InitCmd ==
    /\ pc = "loaded"
    /\ inputs = NoInputs
    /\ \E cli \in Programs :
          /\ cmd = Command(cli, "", {}, None, FALSE, None)
          /\ settings \in (IF cli = "openrsvp" THEN OpenRsvpSettings ELSE InviteSettings)
    /\ lifecycle = "Unopened"
    /\ client = 0
    /\ httpx = <<>>
    /\ wire = <<>>
    /\ attempts = 0
    /\ outcome = NoOutcome
    /\ printed = <<>>
    /\ exitCode = 0
    /\ unhandled = ""
    /\ fault = ""
    /\ disk = NoDisk

NextCmd ==
    \/ \E c \in OpenRsvpLines \cup InviteLines : Invoke(c)
    \/ OpenSession
    \/ SessionCall
    \/ SessionReturn
    \/ CloseSession
    \/ Finish
    \/ set_base_url
    \/ InviteRun
    \/ configure

SpecCmd == InitCmd /\ [][NextCmd]_vars

(***************************************************************************)
(* SpecConfig: runs of one of the programs, one after the other, on the    *)
(* configuration file its user left: each run reads the file in its        *)
(* callback and may write it with its config command.                      *)
(***************************************************************************)
\* the entries of a table that are there
Present(item) == item[2].t # "NoneType"

\* a table of the three settings keys, VNone for a key that is missing
Table(base_url, token, default_channel) ==
    VDict(SelectSeq(<<<<"base_url", base_url>>, <<"token", token>>,
                      <<"default_channel", default_channel>>>>, Present))

\* what a user may have put under one key: nothing, a string marked with
\* the table it stands in ("t" top level, "s" section), or a number
FieldValues(mark) == {VNone, TStr(<<"v", mark>>), VInt(7)}

\* what a user may have put under the key openrsvp: nothing, a table, or
\* something that is no table
Sections ==
    {VNone, TStr(<<"x">>), VInt(7), VList(<<>>)}
        \cup {Table(b, t, c) : b \in FieldValues("s"), t \in FieldValues("s"),
                               c \in FieldValues("s")}

\* the TOML documents a user may have left at config.py's CONFIG_PATH
OpenRsvpDocs ==
    {VDict(Table(b, t, c).v
           \o SelectSeq(<<<<"openrsvp", sec>>>>, Present)) :
        b \in FieldValues("t"), t \in FieldValues("t"), c \in FieldValues("t"),
        sec \in Sections}

\* the TOML documents a user may have left at invite's CONFIG_PATH
InviteDocs ==
    {VDict(SelectSeq(<<<<"base_url", b>>>>, Present)) :
        b \in {VNone, TStr(<<>>), TStr(<<"v", "/">>), VInt(0), VInt(7), VBool(FALSE)}}

\* the files a user may have left for a program
UserFiles(cli) ==
    {Missing, File("unreadable", VNone, <<>>, None), File("garbage", VNone, <<>>, None)}
        \cup {File("toml", d, <<>>, None) :
                 d \in IF cli = "openrsvp" THEN OpenRsvpDocs ELSE InviteDocs}

\* the explicit layer of a run of openrsvp
StartLayers == {NoLayer, Layer(<<"h", "/">>, <<"t", "c">>, None)}

InitConfig ==
    /\ pc = "start"
    /\ inputs = NoInputs
    /\ settings = NoSettings
    /\ \E cli \in Programs :
          /\ cmd = Command(cli, "", {}, None, FALSE, None)
          /\ \E f \in UserFiles(cli) :
                disk = [NoDisk EXCEPT ![IF cli = "openrsvp" THEN OpenRsvpConfigPath
                                        ELSE InviteConfigPath] = f]
    /\ lifecycle = "Unopened"
    /\ client = 0
    /\ httpx = <<>>
    /\ wire = <<>>
    /\ attempts = 0
    /\ outcome = NoOutcome
    /\ printed = <<>>
    /\ exitCode = 0
    /\ unhandled = ""
    /\ fault = ""

\* main.py main(): load_settings reads the file at CONFIG_PATH with
\* _read_config_file and nothing catches what that raises
OpenRsvpStart ==
    /\ pc = "start"
    /\ cmd.cli = "openrsvp"
    /\ LET file_config == _read_config_file(disk[OpenRsvpConfigPath])
       IN  IF file_config.raises # ""
           THEN /\ unhandled' = file_config.raises
                /\ exitCode' = 1
                /\ fault' = "config-read"
                /\ pc' = "exit"
                /\ UNCHANGED <<inputs, settings, printed>>
           ELSE /\ \E cli \in StartLayers :
                      /\ inputs' = [cli |-> cli, env |-> NoLayer,
                                     file |-> file_config.layer]
                      /\ settings' = load_settings(cli, NoLayer, file_config.layer,
                                                    FALSE, FALSE)
                /\ pc' = "loaded"
                /\ UNCHANGED <<printed, exitCode, unhandled, fault>>
    /\ UNCHANGED <<disk, clientVars, cmd>>

\* invite/cli.py main(): the file at CONFIG_PATH is read with
\* _load_config_base_url
InviteStart ==
    /\ pc = "start"
    /\ cmd.cli = "invite"
    /\ \E base_url \in {None, <<"h", "/">>} :
          LET config_base_url == _load_config_base_url(disk[InviteConfigPath])
          IN  /\ inputs' = [cli |-> Layer(base_url, None, None), env |-> NoLayer,
                             file |-> Layer(config_base_url, None, None)]
              /\ settings' = invite_main(base_url, config_base_url, None)
    /\ pc' = "loaded"
    /\ UNCHANGED <<disk, clientVars, cmdVars>>

\* the command lines that write the configuration file
ConfigLines ==
    {c \in OpenRsvpLines \cup InviteLines : c.name \in {"config set-base-url", "configure"}}

\* the process has ended and the user runs the program again: nothing but
\* the files is carried over
NewProcess ==
    /\ pc = "exit"
    /\ pc' = "start"
    /\ inputs' = NoInputs
    /\ settings' = NoSettings
    /\ cmd' = Command(cmd.cli, "", {}, None, FALSE, None)
    /\ printed' = <<>>
    /\ exitCode' = 0
    /\ unhandled' = ""
    /\ fault' = ""
    /\ UNCHANGED <<disk, clientVars>>

NextConfig ==
    \/ OpenRsvpStart
    \/ InviteStart
    \/ \E c \in ConfigLines : Invoke(c)
    \/ set_base_url
    \/ configure
    \/ NewProcess

SpecConfig == InitConfig /\ [][NextConfig]_vars

(***************************************************************************)
(* Claims about APIClient (checked under SpecClient).                      *)
(***************************************************************************)
\* the last request operation obtained an HTTP response
GotResponse == outcome.net.kind = "response"

\* C3: a response with status 401 or 403 makes _request fail with AuthError
\* carrying that status and the fixed guidance message, whatever the body
\* is, and the body is not parsed before the failure is raised.
C3_AuthError ==
    (GotResponse /\ outcome.net.status \in {401, 403}) =>
        /\ outcome.kind = "AuthError"
        /\ outcome.status_code = outcome.net.status
        /\ outcome.message = AuthMessage
        /\ ~outcome.parsed

\* a 403 whose body is no JSON document
C3_Witness ==
    /\ outcome.net = Response(403, "<html>")
    /\ outcome.kind = "AuthError"
    /\ outcome.status_code = 403

\* the payload of a response: the parsed JSON body, or the raw text
BodyPayload(text) == IF text \in JsonBodies THEN JsonValue(text) ELSE VStr(text)

\* C4 as stated: an error status other than 401/403 fails with APIError whose
\* status_code is the response status, whose payload is the parsed JSON body
\* (or the raw text), and whose message is the payload itself when it is a
\* string and otherwise the whole payload; a 2xx response raises nothing and
\* returns the payload unchanged.
C4_AsStated ==
    (GotResponse /\ outcome.net.status \notin {401, 403}) =>
        LET payload == BodyPayload(outcome.net.text)
        IN  /\ is_error(outcome.net.status) =>
                 /\ outcome.kind = "APIError"
                 /\ outcome.status_code = outcome.net.status
                 /\ outcome.payload = payload
                 /\ outcome.message = IF IsStr(payload) THEN payload.v ELSE PyRepr(payload)
            /\ is_success(outcome.net.status) =>
                 /\ outcome.kind = "return"
                 /\ outcome.payload = payload

\* C4 amended: as C4, but the message is the payload itself when the payload
\* is a string, the string form of the whole payload when it is any other
\* truthy value, and the raw body text when the payload is a falsy non-string
\* (null, false, 0, an empty object or an empty list).
C4_APIError ==
    (GotResponse /\ outcome.net.status \notin {401, 403}) =>
        LET payload == BodyPayload(outcome.net.text)
        IN  /\ is_error(outcome.net.status) =>
                 /\ outcome.kind = "APIError"
                 /\ outcome.status_code = outcome.net.status
                 /\ outcome.payload = payload
                 /\ outcome.message =
                       IF IsStr(payload) THEN payload.v
                       ELSE IF PyBool(payload) THEN PyRepr(payload)
                       ELSE outcome.net.text
            /\ is_success(outcome.net.status) =>
                 /\ outcome.kind = "return"
                 /\ outcome.payload = payload

\* a 500 whose body is JSON null: the payload is None, the message the text
C4_Witness ==
    /\ outcome.net = Response(500, "null")
    /\ outcome.kind = "APIError"
    /\ outcome.payload = VNone
    /\ outcome.message = "null"

\* the detail texts of the {"detail": d} bodies
Details == {"not found", "gone"}
DetailBody(d) == IF d = "not found" THEN DetailNotFound ELSE DetailGone

\* C5 as stated: a 404 whose JSON body is {"detail": d} yields APIError with
\* status 404, message equal to the detail text d, and payload equal to the
\* parsed body object.
C5_AsStated ==
    \A d \in Details :
        outcome.net = Response(404, DetailBody(d)) =>
            /\ outcome.kind = "APIError"
            /\ outcome.status_code = 404
            /\ outcome.message = d
            /\ outcome.payload = VDict(<<<<"detail", VStr(d)>>>>)

\* C5 amended: a 404 whose JSON body is {"detail": d} yields APIError with
\* status 404, payload equal to the parsed body object, and message equal to
\* the string form of that whole object, {'detail': 'd'}, not the detail text.
C5_DetailError ==
    \A d \in Details :
        outcome.net = Response(404, DetailBody(d)) =>
            /\ outcome.kind = "APIError"
            /\ outcome.status_code = 404
            /\ outcome.message = "{'detail': '" \o d \o "'}"
            /\ outcome.payload = VDict(<<<<"detail", VStr(d)>>>>)

C5_Witness ==
    /\ outcome.net = Response(404, DetailNotFound)
    /\ outcome.kind = "APIError"
    /\ outcome.message = "{'detail': 'not found'}"

\* C9: requests are permitted only in the Open state: a request attempted
\* while the client is Unopened or Closed is rejected with an error and puts
\* nothing on the wire, and whatever goes on the wire is sent while Open.
C9_OnlyOpenRequests ==
    [][/\ (attempts' # attempts /\ lifecycle # "Open") =>
             (wire' = wire /\ outcome'.kind = "RuntimeError" /\ ~outcome'.sent)
       /\ wire' # wire => lifecycle = "Open"]_vars

\* a request answered while Open, then one refused after the release
C9_Witness ==
    /\ lifecycle = "Closed"
    /\ client # 0
    /\ attempts = 2
    /\ Len(wire) = 1
    /\ outcome.kind = "RuntimeError"

\* C10 as stated: once released (Closed), the same instance never becomes
\* Open again.
C10_AsStated == [][lifecycle = "Closed" => lifecycle' = "Closed"]_vars

\* C10 amended: an instance starts Unopened, is Open after every acquisition
\* and Closed after every release, and never returns to Unopened (it keeps a
\* client once it has one); a release closes the underlying HTTP client for
\* good, but the instance itself can become Open again: acquiring it a second
\* time builds a new underlying HTTP client and yields a usable client.
C10_Lifecycle ==
    [][/\ client # 0 => client' # 0
       /\ lifecycle # "Unopened" => lifecycle' # "Unopened"
       /\ lifecycle' = "Open" => (client' # 0 /\ ~httpx'[client'].closed)
       /\ (lifecycle = "Closed" /\ lifecycle' = "Open") =>
             (Len(httpx') = Len(httpx) + 1 /\ client' = Len(httpx'))
       /\ \A i \in DOMAIN httpx : httpx[i].closed => httpx'[i].closed]_vars

\* released, acquired again, and a request sent through the second httpx
\* client came back with a result
C10_Witness ==
    /\ lifecycle = "Open"
    /\ client = 2
    /\ httpx[1].closed
    /\ wire # <<>>
    /\ wire[Len(wire)].via = 2
    /\ outcome.kind = "return"

\* C13 as stated: every request carries Authorization: Bearer <token> when
\* the settings' token is present and no Authorization header when it is
\* absent.
C13_AsStated ==
    \A i \in DOMAIN wire :
        wire[i].authorization =
            IF settings.token # None THEN Bearer(settings.token) ELSE None

\* C13: every request issued by an opened APIClient carries the header
\* Authorization: Bearer <token> when the settings' token is a non-empty
\* string, and no Authorization header when the token is absent or empty; a
\* token given on the command line with nothing in the environment or the
\* file is the token of the header.
C13_AuthHeader ==
    \A i \in DOMAIN wire :
        /\ wire[i].authorization =
              IF Truthy(settings.token) THEN Bearer(settings.token) ELSE None
        /\ wire[i].authorization = httpx[wire[i].via].headers
        /\ settings.token = <<"t", "c">> =>
              wire[i].authorization = <<"B", "e", "a", "r", "e", "r", " ", "t", "c">>

\* two requests went out with the token of the command line in the header,
\* the second one through a client that was acquired again
C13_Witness ==
    /\ settings.token = <<"t", "c">>
    /\ Len(wire) = 2
    /\ wire[2].via = 2
    /\ wire[2].authorization = Bearer(<<"t", "c">>)

(***************************************************************************)
(* Claims about the request operations and the commands (SpecCmd).         *)
(***************************************************************************)
\* C6: a response with status 204 and no body is a success: the request
\* operation raises nothing, a parse failure included, and hands back an
\* absent payload: the empty string from APIClient._request, None from the
\* invite program's _request.
C6_NoContent ==
    outcome.net = Response(204, "") =>
        /\ outcome.kind = "return"
        /\ ~PyBool(outcome.payload)
        /\ outcome.payload = IF cmd.cli = "openrsvp" THEN VStr("") ELSE VNone

\* events delete answered by 204 with no body ends with exit status 0
C6_Witness ==
    /\ pc = "exit"
    /\ cmd.name = "events delete"
    /\ outcome.net = Response(204, "")
    /\ outcome.kind = "return"
    /\ outcome.payload = VStr("")
    /\ exitCode = 0 /\ unhandled = ""

\* C7: whenever a request obtains no HTTP response, the request operation
\* fails with NetworkError whose message names the base URL and the cause,
\* and never leaves as a raw, unclassified exception.
C7_NetworkError ==
    outcome.net.kind = "error" =>
        /\ outcome.kind = "NetworkError"
        /\ outcome.url = settings.base_url
        /\ outcome.message = "Network error contacting {base_url}: " \o outcome.net.exc

\* the errors C8 lists
ListedFaults == {"network", "auth", "api", "config-write", "validation"}

\* C8: every NetworkError, AuthError, APIError, config-write failure and
\* validation failure met while a command runs ends in a printed message and
\* exit status 1, never in an unhandled exception; a command that meets no
\* error exits with status 0.
C8_HandledErrors ==
    pc = "exit" =>
        /\ fault \in ListedFaults =>
              (exitCode = 1 /\ printed # <<>> /\ unhandled = "")
        /\ fault = "" => (exitCode = 0 /\ unhandled = "")

\* C11: every HTTP client a command opens is closed before the command
\* returns or exits, on every path: a successful response, NetworkError,
\* AuthError, APIError or any other exception raised inside the session.
C11_ClientsClosed ==
    pc \in {"closed", "exit"} => \A i \in DOMAIN httpx : httpx[i].closed

\* an openrsvp command whose request failed with NetworkError has left its
\* session with the client closed
C11_Witness ==
    /\ pc = "closed"
    /\ cmd.cli = "openrsvp"
    /\ outcome.kind = "NetworkError"
    /\ Len(httpx) = 1 /\ httpx[1].closed

\* the outcomes of a request that failed
FailedKinds == {"NetworkError", "AuthError", "APIError", "RuntimeError", "Exit"} \cup RequestErrors

\* C12: in every run of every command at most one API client session is
\* opened and at most one HTTP request is issued; after a request failed no
\* further request is issued and no further client is opened (no retry).
C12_SingleExchange ==
    [][/\ Len(httpx') <= 1
       /\ Len(wire') <= 1
       /\ attempts' <= 1
       /\ outcome.kind \in FailedKinds => (wire' = wire /\ Len(httpx') = Len(httpx))]_vars

\* a run whose one request failed with APIError has ended with that one
\* request on the wire
C12_Witness ==
    /\ pc = "exit"
    /\ outcome.kind = "APIError"
    /\ Len(httpx) = 1 /\ Len(wire) = 1 /\ attempts = 1
    /\ exitCode = 1

\* C17: malformed command-line input (a start or end time that is not
\* ISO-8601, a visibility other than public or private) is rejected before
\* any HTTP request is sent: no API client is opened and no request is issued.
C17_MalformedRejected ==
    (pc = "exit" /\ cmd.malformed # {}) =>
        /\ fault = "validation"
        /\ httpx = <<>>
        /\ wire = <<>>

\* events list has issued its request
Requested == pc \in {"awaiting", "leaving", "closed", "exit"}

\* C19 as stated: events list issues exactly one GET, for
\* /api/v1/channels/{c} when --channel or, failing that, default_channel is
\* non-empty, otherwise for /admin/{token}/events when a token is present,
\* otherwise for /api/v1/events.
C19_AsStated ==
    (cmd.name = "events list" /\ Requested) =>
        /\ Len(wire) = 1
        /\ wire[1].method = "GET"
        /\ wire[1].path =
              IF Truthy(cmd.channel) THEN <<"/api/v1/channels/", cmd.channel>>
              ELSE IF Truthy(settings.default_channel)
              THEN <<"/api/v1/channels/", settings.default_channel>>
              ELSE IF settings.token # None THEN <<"/admin/", settings.token, "/events">>
              ELSE <<"/api/v1/events">>

\* C19: events list issues exactly one GET, for /api/v1/channels/{c} when
\* --channel or, failing that, default_channel is non-empty, otherwise for
\* /admin/{token}/events when the token is a non-empty string, otherwise
\* (token absent or empty) for /api/v1/events; --public-only has no part in
\* the choice.
C19_ListPath ==
    (cmd.name = "events list" /\ Requested) =>
        /\ Len(wire) = 1
        /\ wire[1].method = "GET"
        /\ wire[1].path =
              IF Truthy(cmd.channel) THEN <<"/api/v1/channels/", cmd.channel>>
              ELSE IF Truthy(settings.default_channel)
              THEN <<"/api/v1/channels/", settings.default_channel>>
              ELSE IF Truthy(settings.token) THEN <<"/admin/", settings.token, "/events">>
              ELSE <<"/api/v1/events">>

\* events list --public-only with a token and no channel has asked for the
\* admin listing
C19_Witness ==
    /\ pc = "exit"
    /\ cmd.name = "events list"
    /\ cmd.public_only
    /\ ~Truthy(cmd.channel) /\ ~Truthy(settings.default_channel)
    /\ settings.token = <<"t", "c">>
    /\ wire = <<[method |-> "GET", path |-> <<"/admin/", <<"t", "c">>, "/events">>,
                 base_url |-> settings.base_url,
                 authorization |-> Bearer(<<"t", "c">>), via |-> 1]>>

\* C20 as stated: the rsvps command of the invite program uses the
\* per-command admin token if given, else the global one; with both absent
\* it prints an error and exits with status 1 without a request, and with
\* one present its single request carries Authorization: Bearer <token>.
C20_AsStated ==
    (cmd.cli = "invite" /\ cmd.name = "rsvps" /\ pc = "exit") =>
        LET token == IF cmd.admin_token # None THEN cmd.admin_token ELSE settings.token
        IN  IF token = None
            THEN printed = <<TokenRequired>> /\ exitCode = 1 /\ wire = <<>>
            ELSE Len(wire) = 1 /\ wire[1].authorization = Bearer(token)

\* C20: the rsvps command of the invite program uses the per-command admin
\* token if it is a non-empty string, else the global one; when neither is a
\* non-empty string it prints an error and exits with status 1 without a
\* request, and otherwise its single request carries
\* Authorization: Bearer <that token>.
C20_AdminToken ==
    (cmd.cli = "invite" /\ cmd.name = "rsvps" /\ pc = "exit") =>
        LET token == IF Truthy(cmd.admin_token) THEN cmd.admin_token ELSE settings.token
        IN  IF ~Truthy(token)
            THEN /\ printed = <<TokenRequired>> /\ exitCode = 1
                 /\ wire = <<>> /\ httpx = <<>> /\ attempts = 0
            ELSE Len(wire) = 1 /\ wire[1].authorization = Bearer(token)

\* rsvps with both tokens given has sent the per-command one
C20_Witness ==
    /\ pc = "exit"
    /\ cmd.cli = "invite" /\ cmd.name = "rsvps"
    /\ cmd.admin_token = <<"t", "c">>
    /\ settings.token = <<"t", "e">>
    /\ Len(wire) = 1
    /\ wire[1].authorization = Bearer(<<"t", "c">>)

(***************************************************************************)
(* Claims about the configuration files (checked under SpecConfig).        *)
(***************************************************************************)
\* the file the running program reads and writes
ConfigFile == disk[IF cmd.cli = "invite" THEN InviteConfigPath ELSE OpenRsvpConfigPath]

\* the run of openrsvp has read a file that holds a table under openrsvp
ReadSection ==
    /\ pc = "loaded"
    /\ cmd.cli = "openrsvp"
    /\ ConfigFile.kind = "toml"
    /\ IsDict(DictGet(ConfigFile.doc, "openrsvp"))

\* the value the read gives a key found in the table d, None for a key that
\* is not there
ValueIn(d, key) ==
    IF \E i \in DOMAIN d.v : d.v[i][1] = key
    THEN TomlStr(d.v[CHOOSE i \in DOMAIN d.v : d.v[i][1] = key][2])
    ELSE None

\* the keys a configuration file gives
ConfigKeys == {"base_url", "token", "default_channel"}

\* C14 as stated: with a nested openrsvp section in the file, each of
\* base_url, token and default_channel is taken from the section when the
\* section has the key, and from the top level when the section has not.
C14_AsStated ==
    ReadSection =>
        \A key \in ConfigKeys :
            LET section == DictGet(ConfigFile.doc, "openrsvp")
            IN  inputs.file[key] =
                    IF ValueIn(section, key) # None THEN ValueIn(section, key)
                    ELSE ValueIn(ConfigFile.doc, key)

\* C14: with a nested openrsvp section in the file, each of base_url, token
\* and default_channel is taken from the section when the section has the
\* key, a conflicting top-level key notwithstanding, and is absent when the
\* section has not: the top level is not looked at.
C14_SectionOnly ==
    ReadSection =>
        \A key \in ConfigKeys :
            inputs.file[key] = ValueIn(DictGet(ConfigFile.doc, "openrsvp"), key)

\* a file with base_url both at the top level and in the section, and a
\* token at the top level only, has been read: the section's base_url, no
\* token
C14_Witness ==
    /\ ReadSection
    /\ ValueIn(ConfigFile.doc, "base_url") = <<"v", "t">>
    /\ ValueIn(ConfigFile.doc, "token") = <<"v", "t">>
    /\ DictGet(ConfigFile.doc, "openrsvp") = Table(TStr(<<"v", "s">>), VNone, VNone)
    /\ inputs.file = Layer(<<"v", "s">>, None, None)

\* the file gives nothing the reader can use: it is missing, unreadable or
\* unparsable, or its openrsvp key holds something that is no table
NothingToRead ==
    \/ ConfigFile.kind \in {"missing", "unreadable", "garbage"}
    \/ /\ cmd.cli = "openrsvp"
       /\ ConfigFile.kind = "toml"
       /\ DictGet(ConfigFile.doc, "openrsvp").t \notin {"NoneType", "dict"}

\* C15: reading the config file never raises: for a missing, unreadable or
\* unparsable file, or content of an unexpected shape, the read gives all
\* fields absent and the settings are resolved as if there were no file.
C15_ReadNeverRaises ==
    /\ fault # "config-read"
    /\ (pc = "loaded" /\ NothingToRead) => inputs.file = NoLayer

\* C16: writing the base URL u to the config store and then reading the
\* store gives base_url equal to u with its trailing slashes removed (u not
\* made of slashes alone), the write and the read using the same path.
C16_WriteThenRead ==
    (pc = "loaded" /\ ConfigFile.written # None /\ rstrip(ConfigFile.written) # <<>>) =>
        inputs.file.base_url = rstrip(ConfigFile.written)

\* the run was a config write
ConfigWrite == pc = "exit" /\ cmd.name \in {"config set-base-url", "configure"}

\* C18: a config write either succeeds and gives the path written, or fails
\* with an error that is reported to the user with a non-zero exit status;
\* a failed write is never swallowed and never reported as saved.
C18_WriteReported ==
    ConfigWrite =>
        IF fault = "config-write"
        THEN /\ exitCode # 0
             /\ unhandled = ""
             /\ Len(printed) = 1
             /\ SubSeq(printed, 1, 1) \notin
                    {<<"Saved base_url to " \o OpenRsvpConfigPath>>,
                     <<"Saved config to " \o InviteConfigPath>>}
        ELSE /\ exitCode = 0
             /\ printed \in {<<"Saved base_url to " \o OpenRsvpConfigPath>>,
                              <<"Saved config to " \o InviteConfigPath>>}
             /\ ConfigFile.written # None

(***************************************************************************)
(* Claims about load_settings (checked under SpecSettings).                *)
(***************************************************************************)
\* the first of a, b, c that is not None, else d
FirstPresent(a, b, c, d) ==
    IF a # None THEN a ELSE IF b # None THEN b ELSE IF c # None THEN c ELSE d

\* the first of a, b, c that is a non-empty string, else d
FirstNonEmpty(a, b, c, d) ==
    IF Truthy(a) THEN a ELSE IF Truthy(b) THEN b ELSE IF Truthy(c) THEN c ELSE d

\* C1 as stated: base_url resolves to the highest-precedence source that is
\* not absent (explicit, then environment, then file), trailing slashes
\* stripped, and to the default when all three are absent.
C1_AsStated ==
    pc = "loaded" =>
        settings.base_url =
            rstrip(FirstPresent(inputs.cli.base_url, inputs.env.base_url,
                                inputs.file.base_url, DefaultBaseUrl))

\* C1 amended: base_url resolves to the highest-precedence source that is a
\* non-empty string (an empty string counts as absent), trailing slashes
\* stripped, and to the default when no source is a non-empty string.
C1_BaseUrlPrecedence ==
    pc = "loaded" =>
        settings.base_url =
            rstrip(FirstNonEmpty(inputs.cli.base_url, inputs.env.base_url,
                                 inputs.file.base_url, DefaultBaseUrl))

\* an empty explicit value is passed over for an environment value, which is
\* stripped of its slashes
C1_Witness ==
    /\ pc = "loaded"
    /\ inputs.cli.base_url = <<>>
    /\ inputs.env.base_url = <<"h", "/", "/">>
    /\ inputs.file.base_url = <<"/", "h">>
    /\ settings.base_url = <<"h">>

OptionalFields == {"token", "default_channel"}

\* C2 as stated: token and default_channel resolve to the explicit value if
\* present, else the environment value, else the file value, and to absent
\* when all three are absent.
C2_AsStated ==
    pc = "loaded" =>
        \A f \in OptionalFields :
            settings[f] = FirstPresent(inputs.cli[f], inputs.env[f], inputs.file[f], None)

\* C2 amended: token and default_channel resolve to the highest-precedence
\* non-empty value among explicit, environment and file; when none of them is
\* a non-empty string the result is the file value as it is (absent or
\* empty), so it is absent whenever all three are absent and no default is
\* ever substituted.
C2_TokenChannelPrecedence ==
    pc = "loaded" =>
        \A f \in OptionalFields :
            /\ settings[f] =
                  IF Truthy(inputs.cli[f]) THEN inputs.cli[f]
                  ELSE IF Truthy(inputs.env[f]) THEN inputs.env[f]
                  ELSE inputs.file[f]
            /\ settings[f] \in {inputs.cli[f], inputs.env[f], inputs.file[f]}
            /\ (inputs.cli[f] = None /\ inputs.env[f] = None /\ inputs.file[f] = None)
                  => settings[f] = None

\* all three token sources absent resolve to an absent token while the
\* channel comes from the environment behind an empty explicit value
C2_Witness ==
    /\ pc = "loaded"
    /\ inputs.cli.token = None /\ inputs.env.token = None /\ inputs.file.token = None
    /\ settings.token = None
    /\ inputs.cli.default_channel = <<>>
    /\ inputs.env.default_channel = <<"n", "e">>
    /\ inputs.file.default_channel = <<"n", "f">>
    /\ settings.default_channel = <<"n", "e">>

====
